---- MODULE Spec2Model ----
(***************************************************************************)
(* Model of migrate_to_pep621.py: the Poetry -> PEP 621 converter.          *)
(*                                                                         *)
(* A Python str is a sequence of atoms.  Text that the program parses      *)
(* (version constraints, paths, names) is spelled one character per atom;  *)
(* fixed text that the program only copies into its output may be one      *)
(* atom.  A Python exception is the one-atom sequence naming it.           *)
(***************************************************************************)
EXTENDS Integers, Sequences, FiniteSets, TLC

VARIABLES
    pc,            \* position of the run in the operation being modelled
    ver,           \* argument of the constraint translators
    range,         \* their return value
    deps,          \* a Poetry dependency mapping, in insertion order
    warnings,      \* the warnings list threaded through the builders
    out,           \* return value of poetry_deps_to_pep621 / dep_table_to_pep508
    poetry,        \* the [tool.poetry] table
    build_system,  \* the [build-system] table, and whether the source has one
    text,          \* new_text: return value of build_pep621_toml
    run,           \* arguments and environment of one migrate_pyproject run
    disk           \* the files of the run: source, backup, target

vars == <<pc, ver, range, deps, warnings, out, poetry, build_system, text, run, disk>>

(***************************************************************************)
(* Bounds of the model.                                                    *)
(***************************************************************************)
MaxParts == 3      \* dot-separated components of a generated constraint
MaxDeps == 2       \* entries of a generated dependency mapping
MaxGroups == 2     \* dependency groups of a generated document

(***************************************************************************)
(* Python str primitives.                                                  *)
(***************************************************************************)
DigitChars == <<"0", "1", "2", "3", "4", "5", "6", "7", "8", "9">>

IsDigit(c) == \E i \in 1..10 : DigitChars[i] = c

DigitVal(c) == (CHOOSE i \in 1..10 : DigitChars[i] = c) - 1

IsSpace(c) == c \in {" ", "\t", "\n"}

StartsWith(s, c) == Len(s) > 0 /\ s[1] = c

RECURSIVE LStrip(_)
LStrip(s) == IF Len(s) > 0 /\ IsSpace(s[1]) THEN LStrip(Tail(s)) ELSE s

RECURSIVE RStrip(_)
RStrip(s) ==
    IF Len(s) > 0 /\ IsSpace(s[Len(s)]) THEN RStrip(SubSeq(s, 1, Len(s) - 1)) ELSE s

\* str.strip()
Strip(s) == RStrip(LStrip(s))

\* str.split(sep) for a one-character separator: always at least one piece
RECURSIVE Split(_, _)
Split(s, sep) ==
    IF \A i \in 1..Len(s) : s[i] # sep
    THEN <<s>>
    ELSE LET k == CHOOSE i \in 1..Len(s) :
                      s[i] = sep /\ \A j \in 1..(i - 1) : s[j] # sep
         IN  <<SubSeq(s, 1, k - 1)>> \o Split(SubSeq(s, k + 1, Len(s)), sep)

\* sep.join(list)
RECURSIVE Join(_, _)
Join(list, sep) ==
    IF Len(list) = 0 THEN <<>>
    ELSE IF Len(list) = 1 THEN list[1]
    ELSE list[1] \o sep \o Join(Tail(list), sep)

\* str(n) / f"{n}" for an int
RECURSIVE IntToStr(_)
IntToStr(n) ==
    IF n < 0 THEN <<"-">> \o IntToStr(-n)
    ELSE IF n < 10 THEN <<DigitChars[n + 1]>>
    ELSE IntToStr(n \div 10) \o <<DigitChars[(n % 10) + 1]>>

RECURSIVE DigitsVal(_)
DigitsVal(s) ==
    IF Len(s) = 0 THEN 0
    ELSE 10 * DigitsVal(SubSeq(s, 1, Len(s) - 1)) + DigitVal(s[Len(s)])

AllDigits(s) == Len(s) > 0 /\ \A i \in 1..Len(s) : IsDigit(s[i])

\* int(s): surrounding whitespace and one sign are accepted, then digits only
IntBody(s) ==
    LET t == Strip(s)
    IN  IF Len(t) > 0 /\ t[1] \in {"+", "-"} THEN Tail(t) ELSE t

IsInt(s) == AllDigits(IntBody(s))

ParseInt(s) ==
    IF StartsWith(Strip(s), "-") THEN 0 - DigitsVal(IntBody(s)) ELSE DigitsVal(IntBody(s))

ValueError == <<"ValueError">>

(***************************************************************************)
(* ConstraintTranslator.                                                   *)
(***************************************************************************)
Dot == <<".">>

\* a plausible slip: the upper bound always bumps the major component
caret_upper_major(maj, minor, patch) ==
    IntToStr(maj + 1) \o Dot \o <<"0">> \o Dot \o <<"0">>

\* the three-way choice of the exclusive upper bound
caret_upper(maj, minor, patch) ==
    IF maj > 0
      THEN IntToStr(maj + 1) \o Dot \o <<"0">> \o Dot \o <<"0">>
    ELSE IF minor > 0
      THEN <<"0">> \o Dot \o IntToStr(minor + 1) \o Dot \o <<"0">>
    ELSE <<"0">> \o Dot \o <<"0">> \o Dot \o IntToStr(patch + 1)

caret_to_range(v) ==
    IF ~StartsWith(v, "^") THEN v
    ELSE
      LET base == Tail(v)
          raw  == Split(base, ".")
      IN  IF \E i \in 1..Len(raw) : ~IsInt(raw[i]) THEN ValueError
          ELSE
            LET parts == [i \in 1..3 |-> IF i <= Len(raw) THEN ParseInt(raw[i]) ELSE 0]
                maj   == parts[1]
                minor == parts[2]
                patch == parts[3]
                upper == caret_upper(maj, minor, patch)
            IN  <<">", "=">> \o IntToStr(maj) \o Dot \o IntToStr(minor) \o Dot
                  \o IntToStr(patch) \o <<",", "<">> \o upper

\* a plausible slip: the three-component ceiling bumps the major component
tilde_upper3_major(major, minor) ==
    IntToStr(major + 1) \o Dot \o <<"0">> \o Dot \o <<"0">>

\* ceiling of a three-component tilde constraint
tilde_upper3(major, minor) ==
    IntToStr(major) \o Dot \o IntToStr(minor + 1) \o Dot \o <<"0">>

tilde_to_range(v) ==
    IF ~StartsWith(v, "~") THEN v
    ELSE
      LET base  == Tail(v)
          parts == Split(base, ".")
      IN  IF Len(parts) = 1 THEN
            IF ~IsInt(parts[1]) THEN ValueError
            ELSE <<">", "=">> \o parts[1] \o Dot \o <<"0">> \o <<",", "<">>
                   \o IntToStr(ParseInt(parts[1]) + 1) \o Dot \o <<"0">>
          ELSE IF Len(parts) = 2 THEN
            IF ~IsInt(parts[1]) \/ ~IsInt(parts[2]) THEN ValueError
            ELSE LET major == ParseInt(parts[1])
                     minor == ParseInt(parts[2])
                 IN  <<">", "=">> \o IntToStr(major) \o Dot \o IntToStr(minor)
                       \o <<",", "<">> \o IntToStr(major) \o Dot \o IntToStr(minor + 1)
          ELSE
            IF \E i \in 1..3 : ~IsInt(parts[i]) THEN ValueError
            ELSE LET major == ParseInt(parts[1])
                     minor == ParseInt(parts[2])
                     patch == ParseInt(parts[3])
                 IN  <<">", "=">> \o IntToStr(major) \o Dot \o IntToStr(minor) \o Dot
                       \o IntToStr(patch) \o <<",", "<">> \o tilde_upper3(major, minor)

\* a plausible slip: the surrounding whitespace is kept
normalize_no_strip(v) ==
    IF StartsWith(v, "^") THEN caret_to_range(v)
    ELSE IF StartsWith(v, "~") THEN tilde_to_range(v)
    ELSE v

normalize_version_constraint(v) ==
    LET s == Strip(v)
    IN  IF StartsWith(s, "^") THEN caret_to_range(s)
        ELSE IF StartsWith(s, "~") THEN tilde_to_range(s)
        ELSE s

(***************************************************************************)
(* Character order and case, for sorted(out, key=str.lower).               *)
(***************************************************************************)
AsciiOrder ==
    <<"\t", "\n", " ", "\"", "*", "+", ",", "-", ".", "/",
      "0", "1", "2", "3", "4", "5", "6", "7", "8", "9",
      ":", ";", "<", "=", ">", "@",
      "A", "B", "C", "D", "E", "F", "G", "H", "I", "J", "K", "L", "M",
      "N", "O", "P", "Q", "R", "S", "T", "U", "V", "W", "X", "Y", "Z",
      "[", "\\", "]", "^", "_",
      "a", "b", "c", "d", "e", "f", "g", "h", "i", "j", "k", "l", "m",
      "n", "o", "p", "q", "r", "s", "t", "u", "v", "w", "x", "y", "z", "~">>

Ord(c) == CHOOSE i \in 1..Len(AsciiOrder) : AsciiOrder[i] = c

UpperA == Ord("A")

LowerA == Ord("a")

LowerChar(c) ==
    IF Ord(c) >= UpperA /\ Ord(c) < UpperA + 26
    THEN AsciiOrder[LowerA + (Ord(c) - UpperA)]
    ELSE c

\* str.lower()
Lower(s) == [i \in 1..Len(s) |-> LowerChar(s[i])]

\* a < b on Python str: by code point, a proper prefix first
RECURSIVE StrLess(_, _)
StrLess(a, b) ==
    IF Len(b) = 0 THEN FALSE
    ELSE IF Len(a) = 0 THEN TRUE
    ELSE IF a[1] # b[1] THEN Ord(a[1]) < Ord(b[1])
    ELSE StrLess(Tail(a), Tail(b))

(***************************************************************************)
(* pathlib on a POSIX host.  Cwd and Home are the invocation's working     *)
(* directory and the user's home; the modelled disk holds no symlinks.     *)
(***************************************************************************)
Slash == <<"/">>

Cwd == <<"/", "w", "/", "d">>

Home == <<"/", "h">>

IsAbsolute(p) == StartsWith(p, "/")

\* the segments of a path: empty and "." segments are dropped by Path()
PathParts(p) ==
    SelectSeq(Split(p, "/"), LAMBDA seg : seg # <<>> /\ seg # <<".">>)

\* str(Path(p))
PathStr(p) ==
    IF IsAbsolute(p) THEN Slash \o Join(PathParts(p), Slash)
    ELSE IF PathParts(p) = <<>> THEN <<".">>
    ELSE Join(PathParts(p), Slash)

\* Path.expanduser(): a leading "~" segment becomes the home directory
ExpandUser(p) ==
    LET parts == PathParts(p)
    IN  IF ~IsAbsolute(p) /\ Len(parts) > 0 /\ parts[1] = <<"~">>
        THEN PathStr(Home \o Slash \o Join(Tail(parts), Slash))
        ELSE PathStr(p)

RECURSIVE DropDotDot(_, _)
DropDotDot(done, rest) ==
    IF Len(rest) = 0 THEN done
    ELSE IF rest[1] = <<".", ".">>
      THEN DropDotDot(IF Len(done) = 0 THEN done ELSE SubSeq(done, 1, Len(done) - 1),
                      Tail(rest))
    ELSE DropDotDot(Append(done, rest[1]), Tail(rest))

\* (Path.cwd() / p).resolve()
ResolveFromCwd(p) ==
    Slash \o Join(DropDotDot(<<>>, PathParts(Cwd) \o PathParts(p)), Slash)

(***************************************************************************)
(* SpecifierBuilder.  A dependency value is a str, a table or anything     *)
(* else; a table is its set of keys and the values under them.             *)
(***************************************************************************)
NoVal ==
    [type |-> "other", s |-> <<>>, keys |-> {}, path |-> <<>>, develop |-> FALSE,
     git |-> <<>>, rev |-> <<>>, tag |-> <<>>, branch |-> <<>>,
     version |-> <<>>, extras |-> <<>>, markers |-> <<>>]

StrVal(s) == [NoVal EXCEPT !.type = "str", !.s = s]

OtherVal(repr) == [NoVal EXCEPT !.type = "other", !.s = repr]

\* val.get(k): None (falsy) when the key is missing
Get(val, k) == IF k \in val.keys THEN val[k] ELSE <<>>

\* truth value of a str, a list or None
Truthy(x) == x # <<>>

\* the message of line 87-88; BackQuote stands for its back quote character
BackQuote == "backquote"

WarningText(name, path) ==
    <<"[editable-warning] ">> \o name
      \o <<" uses develop=true (editable). PEP 621 cannot encode this. Use ",
           BackQuote, "pip install -e ">>
      \o path \o <<BackQuote, " inside the venv for live edits.">>

\* a plausible slip: the warning is recorded for every path dependency
editable_warning_always(name, val, path, w) == Append(w, WarningText(name, path))

\* the warning list after the develop check of a path dependency
editable_warning(name, val, path, w) ==
    IF "develop" \in val.keys /\ val.develop
    THEN Append(w, WarningText(name, path))
    ELSE w

AtFile == <<" ", "@", " ", "f", "i", "l", "e", ":", "/", "/">>

AtGit == <<" ", "@", " ", "g", "i", "t", "+">>

\* A call returns its value, the warning list as it leaves it, and whether
\* it raised.
Returned(value, w) == [spec |-> value, warnings |-> w, raised |-> FALSE]

Raised(w) == [spec |-> ValueError, warnings |-> w, raised |-> TRUE]

\* line 82, with the constraint of line 81
StrSpec(name, constraint, w) ==
    IF constraint = ValueError THEN Raised(w)
    ELSE Returned(name \o (IF constraint # <<>> THEN <<" ">> \o constraint ELSE <<>>), w)

\* line 85-90
PathSpec(name, val, path, w) ==
    Returned(name \o AtFile \o (IF IsAbsolute(path) THEN path ELSE ResolveFromCwd(path)),
             editable_warning(name, val, path, w))

\* line 93: the first of rev, tag, branch that is set
GitRef(val) ==
    IF Truthy(Get(val, "rev")) THEN val.rev
    ELSE IF Truthy(Get(val, "tag")) THEN val.tag
    ELSE Get(val, "branch")

\* line 94
GitSpec(name, url, ref, w) ==
    Returned(IF Truthy(ref) THEN name \o AtGit \o url \o <<"@">> \o ref
             ELSE name \o AtGit \o url, w)

\* line 98-102, with the pieces of line 99, 100 and 101
RegistrySpec(head, vpiece, mpiece, w) ==
    IF vpiece = <<ValueError>> THEN Raised(w)
    ELSE Returned(Join(<<head>> \o vpiece \o mpiece, <<" ">>), w)

dep_table_to_pep508(name, val, w) ==
    IF val.type = "str" THEN StrSpec(name, normalize_version_constraint(val.s), w)
    ELSE IF val.type = "dict" THEN
      IF "path" \in val.keys THEN PathSpec(name, val, ExpandUser(val.path), w)
      ELSE IF "git" \in val.keys THEN GitSpec(name, val.git, GitRef(val), w)
      ELSE
        RegistrySpec(
          IF Truthy(Get(val, "extras"))
            THEN name \o <<"[">> \o Join(val.extras, <<",">>) \o <<"]">>
          ELSE name,
          IF Truthy(Get(val, "version"))
            THEN <<normalize_version_constraint(val.version)>>
          ELSE <<>>,
          IF Truthy(Get(val, "markers")) THEN << <<";", " ">> \o val.markers >> ELSE <<>>,
          w)
    ELSE Returned(val.s, w)

\* a plausible slip: the sort compares the specifiers as they are
sort_key_raw(s) == s

\* key=str.lower
sort_key(s) == Lower(s)

\* sorted(list, key=...): stable, so an element goes after the elements
\* whose key is not greater
RECURSIVE InsertSorted(_, _)
InsertSorted(sorted, x) ==
    IF Len(sorted) = 0 THEN <<x>>
    ELSE IF StrLess(sort_key(x), sort_key(sorted[1])) THEN <<x>> \o sorted
    ELSE <<sorted[1]>> \o InsertSorted(Tail(sorted), x)

RECURSIVE SortedByKey(_)
SortedByKey(list) ==
    IF Len(list) = 0 THEN <<>>
    ELSE InsertSorted(SortedByKey(SubSeq(list, 1, Len(list) - 1)), list[Len(list)])

Python == <<"p", "y", "t", "h", "o", "n">>

\* the loop of poetry_deps_to_pep621 over the entries from the i-th on;
\* Collected takes the result r of the call of line 110
RECURSIVE CollectSpecs(_, _, _, _)
RECURSIVE Collected(_, _, _, _)
Collected(d, i, acc, r) ==
    IF r.raised THEN [out |-> ValueError, warnings |-> r.warnings, raised |-> TRUE]
    ELSE CollectSpecs(d, i + 1, Append(acc, r.spec), r.warnings)

CollectSpecs(d, i, acc, w) ==
    IF i > Len(d) THEN [out |-> acc, warnings |-> w, raised |-> FALSE]
    ELSE IF Lower(d[i].name) = Python THEN CollectSpecs(d, i + 1, acc, w)
    ELSE Collected(d, i, acc, dep_table_to_pep508(d[i].name, d[i].val, w))

\* line 111
SortCollected(r) == IF r.raised THEN r ELSE [r EXCEPT !.out = SortedByKey(r.out)]

poetry_deps_to_pep621(d, w) == SortCollected(CollectSpecs(d, 1, <<>>, w))

(***************************************************************************)
(* AuthorParser: the pattern                                               *)
(*   ^\s*(?P<name>.+?)\s*(?:<(?P<email>[^>]+)>)?\s*$                       *)
(***************************************************************************)
AllSpace(t) == \A i \in 1..Len(t) : IsSpace(t[i])

\* \s*(?:<(?P<email>[^>]+)>)?\s*$ against the rest of the string
TailMatch(t) ==
    LET u == LStrip(t)
    IN  IF u = <<>> THEN [ok |-> TRUE, email |-> <<>>]
        ELSE IF u[1] = "<" /\ \E k \in 3..Len(u) : u[k] = ">"
          THEN LET k == CHOOSE i \in 2..Len(u) :
                            u[i] = ">" /\ \A j \in 2..(i - 1) : u[j] # ">"
               IN  IF k >= 3 /\ AllSpace(SubSeq(u, k + 1, Len(u)))
                     THEN [ok |-> TRUE, email |-> SubSeq(u, 2, k - 1)]
                   ELSE [ok |-> FALSE, email |-> <<>>]
        ELSE [ok |-> FALSE, email |-> <<>>]

\* the splits the matcher can take: a blanks skipped, the name up to e
AuthorSplits(str) ==
    { ae \in (0..Len(str)) \X (1..Len(str)) :
        /\ ae[2] > ae[1]
        /\ AllSpace(SubSeq(str, 1, ae[1]))
        /\ \A i \in (ae[1] + 1)..ae[2] : str[i] # "\n"
        /\ TailMatch(SubSeq(str, ae[2] + 1, Len(str))).ok }

\* the split the matcher takes: \s* is greedy (most blanks first), the name
\* is lazy (shortest)
BestSplit(splits) ==
    CHOOSE ae \in splits :
        \A o \in splits : o[1] < ae[1] \/ (o[1] = ae[1] /\ o[2] >= ae[2])

\* line 39-40
AuthorOf(name, email) ==
    [name |-> Strip(name), has_email |-> email # <<>>, email |-> Strip(email)]

AuthorAt(str, best) ==
    AuthorOf(SubSeq(str, best[1] + 1, best[2]),
             TailMatch(SubSeq(str, best[2] + 1, Len(str))).email)

AuthorFrom(str, splits) ==
    IF splits = {} THEN [name |-> str, has_email |-> FALSE, email |-> <<>>]
    ELSE AuthorAt(str, BestSplit(splits))

\* one pass of the loop of line 34-41
parse_author(str) == AuthorFrom(str, AuthorSplits(str))

parse_authors(poetry_authors) ==
    [i \in 1..Len(poetry_authors) |-> parse_author(poetry_authors[i])]

(***************************************************************************)
(* DocumentSerializer.                                                     *)
(***************************************************************************)
Quote == <<"\"">>

RECURSIVE toml_escape(_)
toml_escape(str) ==
    IF Len(str) = 0 THEN <<>>
    ELSE (IF str[1] = "\\" THEN <<"\\", "\\">>
          ELSE IF str[1] = "\"" THEN <<"\\", "\"">>
          ELSE <<str[1]>>) \o toml_escape(Tail(str))

Spaces(n) == [i \in 1..n |-> " "]

Quoted(list) == [i \in 1..Len(list) |-> Quote \o toml_escape(list[i]) \o Quote]

dump_toml_array_str(arr, indent) ==
    LET pad   == Spaces(indent)
        items == Join([i \in 1..Len(arr) |-> pad \o Quoted(arr)[i]], <<",", "\n">>)
    IN  <<"[", "\n">> \o items \o <<"\n">>
          \o Spaces(IF indent - 2 > 0 THEN indent - 2 ELSE 0) \o <<"]">>

\* a table of [tool.poetry] or [build-system]: the set of its keys and the
\* values under them
NoPoetry ==
    [keys |-> {}, name |-> <<>>, version |-> <<>>, description |-> <<>>,
     readme |-> <<>>, authors |-> <<>>, license |-> <<>>, homepage |-> <<>>,
     repository |-> <<>>, documentation |-> <<>>, dependencies |-> <<>>,
     group |-> [is_dict |-> TRUE, items |-> <<>>], scripts |-> <<>>]

\* poetry.get(k): None (falsy) when the key is missing
PGet(p, k) == IF k \in p.keys THEN p[k] ELSE <<>>

DefaultRequires == << <<"p", "o", "e", "t", "r", "y", "-", "c", "o", "r", "e", ">", "=", "1", ".", "9", ".", "0">> >>

DefaultBackend == <<"p", "o", "e", "t", "r", "y", ".", "c", "o", "r", "e", ".", "m", "a", "s", "o", "n", "r", "y", ".", "a", "p", "i">>

DefaultBuildSystem ==
    [keys |-> {"requires", "build-backend"}, requires |-> DefaultRequires,
     backend |-> DefaultBackend]

\* a plausible slip: the source's table is ignored
effective_bs_default(bs) == DefaultBuildSystem

\* build_system or {...}: an empty table is falsy
effective_bs(bs) == IF bs.keys # {} THEN bs ELSE DefaultBuildSystem

\* a plausible slip: the group looked up is not "dev"
DevGroupOther == "test"

\* the one group the converter reads
DevGroup == "dev"

\* groups.get("dev", {}).get("dependencies", {})
DevDependencies(p) ==
    LET groups == IF "group" \in p.keys /\ p.group.is_dict THEN p.group.items ELSE <<>>
        found  == SelectSeq(groups, LAMBDA g : g.name = DevGroup)
    IN  IF Len(found) = 0 THEN <<>> ELSE found[1].dependencies

KeyLine(key, value) == <<key, " = ">> \o Quote \o toml_escape(value) \o Quote

UrlKeys == <<"homepage", "repository", "documentation">>

UrlLabel(k) ==
    IF k = "homepage" THEN "Homepage"
    ELSE IF k = "repository" THEN "Repository"
    ELSE "Documentation"

\* line 167-169
UrlLines(p, urls) == [i \in 1..Len(urls) |-> KeyLine(UrlLabel(urls[i]), p[urls[i]])]

AuthorLine(a) ==
    IF a.has_email
    THEN <<"  { name = ">> \o Quote \o toml_escape(a.name) \o Quote \o <<", email = ">>
           \o Quote \o toml_escape(a.email) \o Quote \o <<" }", ",">>
    ELSE <<"  { name = ">> \o Quote \o toml_escape(a.name) \o Quote \o <<" }", ",">>

\* line 150-194: the lines of the output, from the parsed authors, the
\* two dependency lists, the effective build-system table and the warnings
RenderLines(p, authors, dep_list, dev_deps, bs, notes) ==
       << <<"[project]">>,
          KeyLine("name", IF "name" \in p.keys THEN p.name ELSE <<"u", "n", "k", "n", "o", "w", "n", "-", "p", "a", "c", "k", "a", "g", "e">>),
          KeyLine("version", IF "version" \in p.keys THEN p.version ELSE <<"0", ".", "1", ".", "0">>) >>
    \o (IF Truthy(PGet(p, "description"))
          THEN <<KeyLine("description", p.description)>> ELSE <<>>)
    \o (IF Truthy(PGet(p, "readme")) THEN <<KeyLine("readme", p.readme)>> ELSE <<>>)
    \o (IF Truthy(authors)
          THEN << <<"authors = ", "[">> >>
                 \o [i \in 1..Len(authors) |-> AuthorLine(authors[i])]
                 \o << <<"]">> >>
        ELSE <<>>)
    \o (IF Truthy(PGet(p, "license"))
          THEN << <<"license = { text = ">> \o Quote \o toml_escape(p.license)
                    \o Quote \o <<" }">> >>
        ELSE <<>>)
    \o (IF \E i \in 1..3 : Truthy(PGet(p, UrlKeys[i]))
          THEN << <<"[project.urls]">> >>
                 \o UrlLines(p, SelectSeq(UrlKeys, LAMBDA k : Truthy(PGet(p, k))))
        ELSE <<>>)
    \o (IF Truthy(dep_list)
          THEN << <<>>, <<"dependencies = ">> \o dump_toml_array_str(dep_list, 2) >>
        ELSE <<>>)
    \o (IF Truthy(dev_deps)
          THEN << <<>>, <<"[project.optional-dependencies]">>,
                  <<DevGroup, " = ">> \o dump_toml_array_str(dev_deps, 2) >>
        ELSE <<>>)
    \o (IF Truthy(PGet(p, "scripts"))
          THEN << <<>>, <<"[project.scripts]">> >>
                 \o [i \in 1..Len(p.scripts) |-> KeyLine(p.scripts[i].k, p.scripts[i].v)]
        ELSE <<>>)
    \o << <<>>, <<"[build-system]">>,
          <<"requires = ", "[">>
            \o Join(Quoted(IF "requires" \in bs.keys THEN bs.requires ELSE DefaultRequires),
                    <<", ">>)
            \o <<"]">>,
          KeyLine("build-backend",
                  IF "build-backend" \in bs.keys THEN bs.backend ELSE DefaultBackend) >>
    \o (IF Truthy(notes)
          THEN << <<>>, <<"# --- Migration notes ---">> >>
                 \o [i \in 1..Len(notes) |-> <<"# ">> \o notes[i]]
        ELSE <<>>)

TextOf(lines) == Join(lines, <<"\n">>) \o <<"\n">>

BuildRaised(w) == [text |-> ValueError, warnings |-> w, raised |-> TRUE]

\* line 144 onwards, dev being the result of the call of line 144
BuildWithDev(p, bsys, main, dev) ==
    IF dev.raised THEN BuildRaised(dev.warnings)
    ELSE [text |-> TextOf(RenderLines(p, parse_authors(PGet(p, "authors")), main.out,
                                      dev.out, effective_bs(bsys), dev.warnings)),
          warnings |-> dev.warnings, raised |-> FALSE]

\* line 139 onwards, main being the result of the call of line 139
BuildWithMain(p, bsys, main) ==
    IF main.raised THEN BuildRaised(main.warnings)
    ELSE BuildWithDev(p, bsys, main,
                      poetry_deps_to_pep621(DevDependencies(p), main.warnings))

\* returns the text, the warning list as the call leaves it, and whether the
\* call raised
build_pep621_toml(p, bsys, w) ==
    BuildWithMain(p, bsys, poetry_deps_to_pep621(PGet(p, "dependencies"), w))

(***************************************************************************)
(* Inputs of the translators: optional whitespace, an operator, and up to  *)
(* MaxParts dot-separated components.  Numerals lists each numeral with    *)
(* the number it denotes; "*" is the wildcard component.                   *)
(***************************************************************************)
Numerals ==
    { [txt |-> <<"0">>, val |-> 0], [txt |-> <<"1">>, val |-> 1],
      [txt |-> <<"2">>, val |-> 2], [txt |-> <<"3">>, val |-> 3],
      [txt |-> <<"9">>, val |-> 9], [txt |-> <<"0", "1">>, val |-> 1] }

Canonical == { n \in Numerals : Len(n.txt) = 1 \/ n.txt[1] # "0" }

ComponentTexts == { n.txt : n \in Numerals } \cup { <<"*">> }

Operators == { <<"^">>, <<"~">>, <<"=", "=">>, <<>> }

Padding == { <<>>, <<" ">> }

VerInputs ==
    { pre \o op \o Join(c, Dot) \o post :
        pre \in Padding, op \in Operators, post \in Padding,
        c \in UNION { [1..n -> ComponentTexts] : n \in 1..MaxParts } }

\* values of the variables an operation does not use
NoBuildSystem == [present |-> FALSE, keys |-> {}, requires |-> <<>>, backend |-> <<>>]

NoRun == [dry_run |-> TRUE, out_path |-> FALSE, tomllib |-> TRUE, fault |-> "none"]

NoDisk == [source |-> "original", backup |-> "absent", target |-> "absent"]

IdleBuilder == deps = <<>> /\ warnings = <<>> /\ out = <<>>

IdleSerializer == poetry = NoPoetry /\ build_system = NoBuildSystem /\ text = <<>>

IdleRun == run = NoRun /\ disk = NoDisk

IdleTranslator == ver = <<>> /\ range = <<>>

InitTranslate ==
    /\ pc = "start"
    /\ ver \in VerInputs
    /\ range = <<>>
    /\ IdleBuilder /\ IdleSerializer /\ IdleRun

CallCaret ==
    /\ pc = "start"
    /\ range' = caret_to_range(ver)
    /\ pc' = "caret"
    /\ UNCHANGED <<ver, deps, warnings, out, poetry, build_system, text, run, disk>>

CallTilde ==
    /\ pc = "start"
    /\ range' = tilde_to_range(ver)
    /\ pc' = "tilde"
    /\ UNCHANGED <<ver, deps, warnings, out, poetry, build_system, text, run, disk>>

CallNormalize ==
    /\ pc = "start"
    /\ range' = normalize_version_constraint(ver)
    /\ pc' = "normalize"
    /\ UNCHANGED <<ver, deps, warnings, out, poetry, build_system, text, run, disk>>

NextTranslate == CallCaret \/ CallTilde \/ CallNormalize

SpecTranslate == InitTranslate /\ [][NextTranslate]_vars

(***************************************************************************)
(* Claims about the translators.                                           *)
(***************************************************************************)
\* the decimal numeral of a small number, written out
DecimalTable ==
    << <<"0">>, <<"1">>, <<"2">>, <<"3">>, <<"4">>, <<"5">>, <<"6">>, <<"7">>,
       <<"8">>, <<"9">>, <<"1", "0">> >>

Decimal(n) == DecimalTable[n + 1]

Texts(c) == [i \in DOMAIN c |-> c[i].txt]

ValAt(c, i) == IF i <= Len(c) THEN c[i].val ELSE 0

Dotted(a, b, c) == Decimal(a) \o Dot \o Decimal(b) \o Dot \o Decimal(c)

CaretExpected(maj, min, pat) ==
    <<">", "=">> \o Dotted(maj, min, pat) \o <<",", "<">> \o
      (IF maj > 0 THEN Dotted(maj + 1, 0, 0)
       ELSE IF min > 0 THEN Dotted(0, min + 1, 0)
       ELSE Dotted(0, 0, pat + 1))

\* C1: a caret followed by one to three non-negative integers translates to
\* '>=MAJ.MIN.PAT,<UPPER', the lower bound padded with zeros to three
\* components and UPPER bumping the leftmost non-zero component.
CaretRangeCorrect ==
    pc = "caret" =>
      \A n \in 1..3 : \A c \in [1..n -> Numerals] :
        ver = <<"^">> \o Join(Texts(c), Dot) =>
          range = CaretExpected(ValAt(c, 1), ValAt(c, 2), ValAt(c, 3))

CaretRangeWitness ==
    /\ pc = "caret"
    /\ ver = <<"^", "0", ".", "0", ".", "3">>
    /\ range = <<">", "=", "0", ".", "0", ".", "3", ",", "<", "0", ".", "0", ".", "4">>

TildeExpected(c) ==
    LET X == c[1].val
    IN  IF Len(c) = 1
          THEN <<">", "=">> \o Decimal(X) \o <<".", "0", ",", "<">> \o Decimal(X + 1)
                 \o <<".", "0">>
        ELSE IF Len(c) = 2
          THEN <<">", "=">> \o Decimal(X) \o Dot \o Decimal(c[2].val) \o <<",", "<">>
                 \o Decimal(X) \o Dot \o Decimal(c[2].val + 1)
        ELSE <<">", "=">> \o Dotted(X, c[2].val, c[3].val) \o <<",", "<">>
               \o Dotted(X, c[2].val + 1, 0)

\* C2: a tilde followed by one, two or three numeric components (written
\* without leading zeros) translates to '>=floor,<ceiling': X -> X.0 and
\* (X+1).0; X.Y -> X.Y and X.(Y+1); X.Y.Z -> X.Y.Z and X.(Y+1).0.
TildeRangeCorrect ==
    pc = "tilde" =>
      \A n \in 1..3 : \A c \in [1..n -> Canonical] :
        ver = <<"~">> \o Join(Texts(c), Dot) => range = TildeExpected(c)

TildeRangeWitness ==
    /\ pc = "tilde"
    /\ ver = <<"~", "1", ".", "2", ".", "3">>
    /\ range = <<">", "=", "1", ".", "2", ".", "3", ",", "<", "1", ".", "3", ".", "0">>

\* C3 as stated: every input that does not start with '^' or '~' is returned
\* unchanged, surrounding whitespace included.
PassthroughUnchanged ==
    (pc = "normalize" /\ ~StartsWith(ver, "^") /\ ~StartsWith(ver, "~")) => range = ver

\* s is t without its leading and trailing whitespace
IsStripped(s, t) ==
    /\ (Len(s) > 0 => ~IsSpace(s[1]) /\ ~IsSpace(s[Len(s)]))
    /\ \E a \in 0..Len(t) :
         /\ a + Len(s) <= Len(t)
         /\ \A i \in 1..Len(s) : t[a + i] = s[i]
         /\ \A i \in 1..Len(t) : (i <= a \/ i > a + Len(s)) => IsSpace(t[i])

FirstNonSpace(t) ==
    IF \A i \in 1..Len(t) : IsSpace(t[i]) THEN ""
    ELSE t[CHOOSE i \in 1..Len(t) : ~IsSpace(t[i]) /\ \A j \in 1..(i - 1) : IsSpace(t[j])]

\* C3 amended: an input whose first non-blank character is neither '^' nor
\* '~' is returned with its leading and trailing whitespace removed and is
\* otherwise unchanged; without surrounding whitespace it is returned as is.
PassthroughStripped ==
    (pc = "normalize" /\ FirstNonSpace(ver) \notin {"^", "~"}) =>
      /\ IsStripped(range, ver)
      /\ (Len(ver) > 0 /\ ~IsSpace(ver[1]) /\ ~IsSpace(ver[Len(ver)]) => range = ver)

PassthroughWitness ==
    /\ pc = "normalize"
    /\ ver = <<" ", "=", "=", "2", ".", "0">>
    /\ range = <<"=", "=", "2", ".", "0">>

(***************************************************************************)
(* Inputs of the builder: mappings of at most MaxDeps entries with         *)
(* distinct names, and a warning list that already holds an entry.         *)
(***************************************************************************)
PathVal(p) == [NoVal EXCEPT !.type = "dict", !.keys = {"path"}, !.path = p]

DevelopVal(p, b) ==
    [NoVal EXCEPT !.type = "dict", !.keys = {"path", "develop"}, !.path = p, !.develop = b]

GitVal(url, tag) ==
    [NoVal EXCEPT !.type = "dict", !.keys = {"git", "tag"}, !.git = url, !.tag = tag]

RegistryVal(version, extras) ==
    [NoVal EXCEPT !.type = "dict", !.keys = {"version", "extras"},
                  !.version = version, !.extras = extras]

DepNames == { <<"F", "o", "o">>, <<"f", "o", "o">>, <<"b", "a", "r">>, <<"P", "y", "t", "h", "o", "n">> }

DepVals ==
    { StrVal(<<"^", "1", ".", "2">>),
      DevelopVal(<<".", ".", "/", "t">>, TRUE), DevelopVal(<<"~", "/", "t">>, FALSE), PathVal(<<"/", "o", "p", "t", "/", "t">>),
      GitVal(<<"u">>, <<"v">>), RegistryVal(<<"~", "1">>, <<<<"x">>>>), OtherVal(<<"1">>) }

DepEntries == { [name |-> n, val |-> v] : n \in DepNames, v \in DepVals }

DepMappings ==
    { d \in UNION { [1..n -> DepEntries] : n \in 0..MaxDeps } :
        \A i, j \in 1..Len(d) : i # j => d[i].name # d[j].name }

InitDeps ==
    /\ pc = "start"
    /\ deps \in DepMappings
    /\ warnings = << <<"earlier warning">> >>
    /\ out = <<>>
    /\ IdleTranslator /\ IdleSerializer /\ IdleRun

\* the caller hands over the same mapping with two entries exchanged
Reorder ==
    /\ pc = "start"
    /\ \E i, j \in 1..Len(deps) :
         /\ i < j
         /\ deps' = [deps EXCEPT ![i] = deps[j], ![j] = deps[i]]
    /\ UNCHANGED <<pc, ver, range, warnings, out, poetry, build_system, text, run, disk>>

\* the caller takes the value and the warning list a call leaves
ReturnsSpec(r) == out' = r.spec /\ warnings' = r.warnings

ReturnsList(r) == out' = r.out /\ warnings' = r.warnings

\* dep_table_to_pep508 on the first entry of the mapping
CallDepTable ==
    /\ pc = "start"
    /\ Len(deps) > 0
    /\ ReturnsSpec(dep_table_to_pep508(deps[1].name, deps[1].val, warnings))
    /\ pc' = "dep_table"
    /\ UNCHANGED <<ver, range, deps, poetry, build_system, text, run, disk>>

CallPoetryDeps ==
    /\ pc = "start"
    /\ ReturnsList(poetry_deps_to_pep621(deps, warnings))
    /\ pc' = "deps"
    /\ UNCHANGED <<ver, range, deps, poetry, build_system, text, run, disk>>

NextDeps == Reorder \/ CallDepTable \/ CallPoetryDeps

SpecDeps == InitDeps /\ [][NextDeps]_vars

(***************************************************************************)
(* Claims about the builder.                                               *)
(***************************************************************************)
Reorderings(d) ==
    { [i \in 1..Len(d) |-> d[f[i]]] :
        f \in { g \in [1..Len(d) -> 1..Len(d)] :
                  \A i, j \in 1..Len(d) : i # j => g[i] # g[j] } }

SortedIgnoringCase(list) ==
    \A i, j \in 1..Len(list) : i < j => ~StrLess(Lower(list[j]), Lower(list[i]))

LowerAll(list) == [i \in 1..Len(list) |-> Lower(list[i])]

NoCaseTwins(list) ==
    \A i, j \in 1..Len(list) : Lower(list[i]) = Lower(list[j]) => list[i] = list[j]

\* C4 as stated: the output list is sorted ignoring case and is the same
\* list for every reordering of the mapping's entries, also when two
\* specifiers differ only in letter case.
DepsOrderInvariant ==
    (pc = "deps" /\ out # ValueError) =>
      /\ SortedIgnoringCase(out)
      /\ \A d \in Reorderings(deps) : poetry_deps_to_pep621(d, <<>>).out = out

SameUpToCase(other, list) ==
    /\ LowerAll(other) = LowerAll(list)
    /\ (NoCaseTwins(list) => other = list)

\* C4 amended: the output list is sorted ignoring case, and every reordering
\* of the entries gives the same list up to letter case; it gives the very
\* same list when no two specifiers differ only in letter case (such
\* specifiers keep the order they had in the mapping).
DepsOrderInvariantUpToCase ==
    (pc = "deps" /\ out # ValueError) =>
      /\ SortedIgnoringCase(out)
      /\ \A d \in Reorderings(deps) :
           SameUpToCase(poetry_deps_to_pep621(d, <<>>).out, out)

DepsCaseTwinsWitness ==
    /\ pc = "deps"
    /\ Len(out) = 2
    /\ out[1] # out[2]
    /\ Lower(out[1]) = Lower(out[2])

Mentions(w, name) ==
    \E i \in 0..(Len(w) - Len(name)) : SubSeq(w, i + 1, i + Len(name)) = name

IsEditablePath(val) ==
    val.type = "dict" /\ "path" \in val.keys /\ "develop" \in val.keys /\ val.develop = TRUE

IsPlainPath(val) ==
    val.type = "dict" /\ "path" \in val.keys /\ ~("develop" \in val.keys /\ val.develop = TRUE)

\* the specifier is 'name @ file://' followed by an absolute path
IsFileReference(spec, name) ==
    /\ Len(spec) > Len(name) + Len(AtFile)
    /\ SubSeq(spec, 1, Len(name) + Len(AtFile)) = name \o AtFile
    /\ spec[Len(name) + Len(AtFile) + 1] = "/"

\* C5: building the specifier of a path entry marked develop = true appends
\* exactly one warning, which mentions the dependency's name, and returns the
\* ordinary specifier 'name @ file://<absolute-path>', the one the same entry
\* gets without the mark; a path entry not so marked appends no warning.
EditableWarnsOnce ==
    [][ (pc = "start" /\ pc' = "dep_table") =>
          LET name == deps[1].name
              val  == deps[1].val
          IN  /\ IsEditablePath(val) =>
                   /\ Len(warnings') = Len(warnings) + 1
                   /\ SubSeq(warnings', 1, Len(warnings)) = warnings
                   /\ Mentions(warnings'[Len(warnings')], name)
                   /\ IsFileReference(out', name)
                   /\ out' = dep_table_to_pep508(name, PathVal(val.path), <<>>).spec
              /\ IsPlainPath(val) => warnings' = warnings /\ IsFileReference(out', name)
      ]_vars

EditableWarnsWitness ==
    /\ pc = "dep_table"
    /\ IsEditablePath(deps[1].val)
    /\ deps[1].name = <<"f", "o", "o">>
    /\ Len(warnings) = 2
    /\ Mentions(warnings[2], <<"f", "o", "o">>)
    /\ out = <<"f", "o", "o", " ", "@", " ", "f", "i", "l", "e", ":", "/", "/", "/", "w", "/", "t">>

(***************************************************************************)
(* Inputs of the serializer: [tool.poetry] tables with optional fields     *)
(* present or not, at most MaxGroups dependency groups, and the forms a    *)
(* [build-system] table can take.                                          *)
(***************************************************************************)
Entry(n, v) == [name |-> n, val |-> v]

MainDependencies ==
    { <<>>,
      << Entry(<<"r", "e", "q", "u", "e", "s", "t", "s">>, StrVal(<<"^", "2", ".", "3", "1", ".", "0">>)),
         Entry(<<"l", "o", "c", "a", "l", "t", "o", "o", "l">>, DevelopVal(<<".", ".", "/", "l", "o", "c", "a", "l", "t", "o", "o", "l">>, TRUE)) >>,
      << Entry(<<"p", "y", "t", "h", "o", "n">>, StrVal(<<"^", "3", ".", "1", "1">>)) >>,
      << Entry(<<"r", "e", "q", "u", "e", "s", "t", "s">>, StrVal(<<"^", "x">>)) >> }

GroupNames == {"dev", "test", "docs"}

GroupDependencies(g) ==
    IF g = "dev" THEN << Entry(<<"p", "y", "t", "e", "s", "t">>, StrVal(<<"~", "7", ".", "4">>)) >>
    ELSE IF g = "test" THEN << Entry(<<"p", "y", "t", "h", "o", "n">>, StrVal(<<"^", "3", ".", "1", "1">>)), Entry(<<"t", "o", "x">>, StrVal(<<"^", "4">>)) >>
    ELSE << Entry(<<"p", "y", "t", "h", "o", "n">>, StrVal(<<"^", "3", ".", "1", "1">>)) >>

GroupTables ==
    { [i \in 1..Len(names) |->
         [name |-> names[i], dependencies |-> GroupDependencies(names[i])]] :
        names \in { f \in UNION { [1..n -> GroupNames] : n \in 0..MaxGroups } :
                      \A i, j \in 1..Len(f) : i # j => f[i] # f[j] } }

BasePoetry ==
    [NoPoetry EXCEPT !.keys = {"name", "version"}, !.name = <<"p", "k", "g">>, !.version = <<"1", ".", "0">>]

With(p, k, v) == IF v = <<>> THEN p ELSE [p EXCEPT !.keys = @ \cup {k}, ![k] = v]

PoetryDocs ==
    { LET p1 == With(BasePoetry, "description", d)
          p2 == With(p1, "authors", a)
          p3 == With(p2, "homepage", h)
          p4 == With(p3, "dependencies", m)
          p5 == With(p4, "scripts", sc)
      IN  IF g = <<>> THEN p5
          ELSE [p5 EXCEPT !.keys = @ \cup {"group"}, !.group = [is_dict |-> TRUE, items |-> g]] :
        d \in { <<>>, <<"a", " ", "\"", "q", "\"">> },
        a \in { <<>>, << <<"J", " ", "D", " ", "<", "j", "@", "x", ">">> >>, << <<"J", " ", "D">>, <<"J", " ", "D", " ", "<", "j", "@", "x", ">">> >> },
        h \in { <<>>, <<"h", ".", "i", "o">> },
        m \in MainDependencies,
        sc \in { <<>>, << [k |-> <<"c", "l", "i">>, v |-> <<"p", "k", "g", ":", "m", "a", "i", "n">>] >> },
        g \in GroupTables }

Setuptools == << <<"s", "e", "t", "u", "p", "t", "o", "o", "l", "s">> >>

SetuptoolsBackend == <<"s", "e", "t", "u", "p", "t", "o", "o", "l", "s", ".", "b", "u", "i", "l", "d", "_", "m", "e", "t", "a">>

BuildSystems ==
    { NoBuildSystem,
      [NoBuildSystem EXCEPT !.present = TRUE],
      [NoBuildSystem EXCEPT !.present = TRUE, !.keys = {"requires"}, !.requires = Setuptools],
      [NoBuildSystem EXCEPT !.present = TRUE, !.keys = {"build-backend"},
                            !.backend = SetuptoolsBackend],
      [NoBuildSystem EXCEPT !.present = TRUE, !.keys = {"requires", "build-backend"},
                            !.requires = Setuptools, !.backend = SetuptoolsBackend] }

InitBuild ==
    /\ pc = "start"
    /\ poetry \in PoetryDocs
    /\ build_system \in BuildSystems
    /\ text = <<>>
    /\ warnings = <<>>
    /\ deps = <<>> /\ out = <<>>
    /\ IdleTranslator /\ IdleRun

ReturnsText(r) == text' = r.text /\ warnings' = r.warnings

Build ==
    /\ pc = "start"
    /\ ReturnsText(build_pep621_toml(poetry, build_system, warnings))
    /\ pc' = "built"
    /\ UNCHANGED <<ver, range, deps, out, poetry, build_system, run, disk>>

NextBuild == Build

SpecBuild == InitBuild /\ [][NextBuild]_vars

(***************************************************************************)
(* Claims about the serializer.                                            *)
(***************************************************************************)
Lines(t) == Split(t, "\n")

Built == pc = "built" /\ text # ValueError

Headers ==
    {"[project]", "[project.urls]", "[project.optional-dependencies]",
     "[project.scripts]", "[build-system]"}

IsHeader(line) == Len(line) = 1 /\ line[1] \in Headers

\* the table a line belongs to: the nearest header above it
TableOf(L, k) ==
    IF \A m \in 1..(k - 1) : ~IsHeader(L[m]) THEN "none"
    ELSE L[CHOOSE m \in 1..(k - 1) :
              IsHeader(L[m]) /\ \A n \in (m + 1)..(k - 1) : ~IsHeader(L[n])][1]

OpensArray(line) == Len(line) > 0 /\ line[Len(line)] = "["

ClosesArray(line) == line = <<"]">>

\* the lines of the array opened on line k
ElementLines(L, k) ==
    { m \in (k + 1)..Len(L) : \A n \in (k + 1)..m : ~ClosesArray(L[n]) }

\* C7: in every multi-line array of the output each element line, the last
\* one included, ends with a comma.
ArraysTrailingComma ==
    Built =>
      LET L == Lines(text)
      IN  \A k \in 1..Len(L) : OpensArray(L[k]) =>
            \A m \in ElementLines(L, k) : Len(L[m]) > 0 /\ L[m][Len(L[m])] = ","

RequiresLine(list) == <<"requires = ", "[">> \o Join(Quoted(list), <<", ">>) \o <<"]">>

BuildSystemAt(L) == CHOOSE k \in 1..Len(L) : L[k] = <<"[build-system]">>

EmittedRequires(L) == L[BuildSystemAt(L) + 1]

EmittedBackend(L) == L[BuildSystemAt(L) + 2]

HasPackage(g) ==
    \E i \in 1..Len(g.dependencies) : Lower(g.dependencies[i].name) # Python

SourceGroups(p) == IF "group" \in p.keys /\ p.group.is_dict THEN p.group.items ELSE <<>>

Names(groups) == [i \in 1..Len(groups) |-> groups[i].name]

IsGroupEntry(L, k) ==
    /\ TableOf(L, k) = "[project.optional-dependencies]"
    /\ Len(L[k]) = 3 /\ L[k][2] = " = " /\ L[k][3] = "["

\* the names of the entries under [project.optional-dependencies], in order
RECURSIVE OptionalEntries(_, _)
OptionalEntries(L, k) ==
    IF k > Len(L) THEN <<>>
    ELSE (IF IsGroupEntry(L, k) THEN <<L[k][1]>> ELSE <<>>) \o OptionalEntries(L, k + 1)

\* C9 as stated: every group with a non-interpreter dependency has exactly
\* one entry under [project.optional-dependencies], in the order of the
\* source.
EveryGroupEmitted ==
    Built =>
      OptionalEntries(Lines(text), 1) = Names(SelectSeq(SourceGroups(poetry), HasPackage))

CountPackages(g) ==
    Cardinality({ i \in 1..Len(g.dependencies) : Lower(g.dependencies[i].name) # Python })

\* C9 amended: the group named dev, when it has a non-interpreter dependency,
\* has exactly one entry under [project.optional-dependencies] holding all
\* of these dependencies, and it is the only entry: every other group of the
\* source is left out of the output.
OnlyDevGroupEmitted ==
    Built =>
      LET L       == Lines(text)
          devs    == SelectSeq(SourceGroups(poetry), LAMBDA g : g.name = "dev")
          emitted == OptionalEntries(L, 1)
      IN  IF Len(devs) > 0 /\ HasPackage(devs[1])
          THEN /\ emitted = <<"dev">>
               /\ \E k \in 1..Len(L) :
                    /\ IsGroupEntry(L, k)
                    /\ Cardinality(ElementLines(L, k)) = CountPackages(devs[1])
          ELSE emitted = <<>>

OnlyDevGroupWitness ==
    /\ Built
    /\ Names(SourceGroups(poetry)) = <<"test", "dev">>
    /\ OptionalEntries(Lines(text), 1) = <<"dev">>

\* C10: the dependencies array is a field of the [project] table.
DependenciesInProject ==
    Built =>
      LET L == Lines(text)
      IN  \A k \in 1..Len(L) :
            (Len(L[k]) > 0 /\ L[k][1] = "dependencies = ") => TableOf(L, k) = "[project]"

(***************************************************************************)
(* migrate_pyproject.  One run: read and parse the source, check for the   *)
(* [tool.poetry] table, build the new text and, unless dry_run, copy the    *)
(* source to the backup and write the target.  run.fault names the I/O     *)
(* call that fails in this run, if any; a failed copy or write leaves the  *)
(* file it was producing absent, untouched or partly written.              *)
(***************************************************************************)
Faults == {"none", "read", "backup", "write"}

Runs ==
    [dry_run : BOOLEAN, out_path : BOOLEAN, tomllib : BOOLEAN, fault : Faults]

MigrateDocs ==
    { NoPoetry, BasePoetry } \cup
    { With(BasePoetry, "dependencies", m) : m \in MainDependencies }

InitMigrate ==
    /\ pc = "start"
    /\ run \in Runs
    /\ disk = NoDisk
    /\ poetry \in MigrateDocs
    /\ build_system \in { NoBuildSystem,
                          [NoBuildSystem EXCEPT !.present = TRUE, !.keys = {"requires"},
                                                !.requires = Setuptools] }
    /\ text = <<>>
    /\ warnings = <<>>
    /\ deps = <<>> /\ out = <<>>
    /\ IdleTranslator

\* line 198-199: tomllib is missing
NoTomllib ==
    /\ pc = "start"
    /\ ~run.tomllib
    /\ pc' = "failed"
    /\ UNCHANGED <<ver, range, deps, warnings, out, poetry, build_system, text, run, disk>>

\* line 200: read_text raises
ReadFails ==
    /\ pc = "start"
    /\ run.tomllib
    /\ run.fault = "read"
    /\ pc' = "failed"
    /\ UNCHANGED <<ver, range, deps, warnings, out, poetry, build_system, text, run, disk>>

\* line 200-201: the document is read and parsed
Load ==
    /\ pc = "start"
    /\ run.tomllib
    /\ run.fault # "read"
    /\ pc' = "loaded"
    /\ UNCHANGED <<ver, range, deps, warnings, out, poetry, build_system, text, run, disk>>

\* line 202-203: no (or an empty) [tool.poetry] table
NoPoetrySection ==
    /\ pc = "loaded"
    /\ poetry.keys = {}
    /\ pc' = "failed"
    /\ UNCHANGED <<ver, range, deps, warnings, out, poetry, build_system, text, run, disk>>

Transformed(r) ==
    /\ ReturnsText(r)
    /\ pc' = IF r.raised THEN "failed"
             ELSE IF run.dry_run THEN "done"
             ELSE "transformed"

\* line 204-206, and line 207 and 212 of a dry run
Transform ==
    /\ pc = "loaded"
    /\ poetry.keys # {}
    /\ Transformed(build_pep621_toml(poetry, build_system, <<>>))
    /\ UNCHANGED <<ver, range, deps, out, poetry, build_system, run, disk>>

\* line 208-209: shutil.copy2 raises
BackupFails ==
    /\ pc = "transformed"
    /\ run.fault = "backup"
    /\ \E left \in {"absent", "partial"} : disk' = [disk EXCEPT !.backup = left]
    /\ pc' = "failed"
    /\ UNCHANGED <<ver, range, deps, warnings, out, poetry, build_system, text, run>>

\* line 208-209
Backup ==
    /\ pc = "transformed"
    /\ run.fault # "backup"
    /\ disk' = [disk EXCEPT !.backup = "copy"]
    /\ pc' = "backed_up"
    /\ UNCHANGED <<ver, range, deps, warnings, out, poetry, build_system, text, run>>

\* line 210: out_path or pyproject_path
Target == IF run.out_path THEN "target" ELSE "source"

\* line 211: write_text raises
WriteFails ==
    /\ pc = "backed_up"
    /\ run.fault = "write"
    /\ \E left \in {disk[Target], "partial"} : disk' = [disk EXCEPT ![Target] = left]
    /\ pc' = "failed"
    /\ UNCHANGED <<ver, range, deps, warnings, out, poetry, build_system, text, run>>

\* line 211-212
Write ==
    /\ pc = "backed_up"
    /\ run.fault # "write"
    /\ disk' = [disk EXCEPT ![Target] = "converted"]
    /\ pc' = "done"
    /\ UNCHANGED <<ver, range, deps, warnings, out, poetry, build_system, text, run>>

NextMigrate ==
    \/ NoTomllib \/ ReadFails \/ Load \/ NoPoetrySection \/ Transform
    \/ BackupFails \/ Backup \/ WriteFails \/ Write

SpecMigrate == InitMigrate /\ [][NextMigrate]_vars

(***************************************************************************)
(* Claim about migrate_pyproject.                                          *)
(***************************************************************************)
\* C6: a run that ends in a fatal condition has created or modified no file.
FatalLeavesDiskUntouched == pc = "failed" => disk = NoDisk

====
